---- MODULE Spec2Model ----
(***************************************************************************)
(* MS5803 pressure/temperature driver (src/src/MS5803.py), MicroPython.    *)
(*                                                                         *)
(* The session (class MS5803), its bus traffic and the compensation        *)
(* arithmetic of get_measurements.  Python integers are unbounded; TLC's   *)
(* are 32 bits wide, so the values of get_measurements are kept as sign    *)
(* and magnitude over limbs of 15 bits (Int_* operators below).            *)
(***************************************************************************)
EXTENDS Integers, Sequences, FiniteSets, TLC

(***************************************************************************)
(* Python int: unbounded signed integers.                                  *)
(* [neg |-> sign, mag |-> limbs, least significant first, no leading 0]    *)
(***************************************************************************)
LIMB == 2^15

RECURSIVE MagNorm(_)
MagNorm(m) ==
    IF m = <<>> THEN <<>>
    ELSE IF m[Len(m)] = 0 THEN MagNorm(SubSeq(m, 1, Len(m) - 1))
    ELSE m

RECURSIVE MagOfNat(_)
MagOfNat(n) ==
    IF n = 0 THEN <<>> ELSE <<n % LIMB>> \o MagOfNat(n \div LIMB)

RECURSIVE NatOfMag(_)
NatOfMag(m) ==
    IF m = <<>> THEN 0 ELSE Head(m) + LIMB * NatOfMag(Tail(m))

RECURSIVE MagAddC(_, _, _)
MagAddC(a, b, c) ==
    IF a = <<>> /\ b = <<>> THEN (IF c = 0 THEN <<>> ELSE <<c>>)
    ELSE LET x == IF a = <<>> THEN 0 ELSE Head(a)
             y == IF b = <<>> THEN 0 ELSE Head(b)
             s == x + y + c
         IN  <<s % LIMB>> \o MagAddC(IF a = <<>> THEN a ELSE Tail(a),
                                      IF b = <<>> THEN b ELSE Tail(b),
                                      s \div LIMB)

MagAdd(a, b) == MagAddC(a, b, 0)

\* a - b for magnitudes with a >= b
RECURSIVE MagSubB(_, _, _)
MagSubB(a, b, br) ==
    IF a = <<>> THEN <<>>
    ELSE LET y == IF b = <<>> THEN 0 ELSE Head(b)
             d == Head(a) - y - br
         IN  <<IF d < 0 THEN d + LIMB ELSE d>>
               \o MagSubB(Tail(a), IF b = <<>> THEN b ELSE Tail(b),
                          IF d < 0 THEN 1 ELSE 0)

MagSub(a, b) == MagNorm(MagSubB(a, b, 0))

\* -1, 0, 1 as a < b, a = b, a > b (normalised magnitudes)
RECURSIVE MagCmpFrom(_, _, _)
MagCmpFrom(a, b, i) ==
    IF i = 0 THEN 0
    ELSE IF a[i] < b[i] THEN -1
    ELSE IF a[i] > b[i] THEN 1
    ELSE MagCmpFrom(a, b, i - 1)

MagCmp(a, b) ==
    IF Len(a) < Len(b) THEN -1
    ELSE IF Len(a) > Len(b) THEN 1
    ELSE MagCmpFrom(a, b, Len(a))

RECURSIVE MagMulLimb(_, _, _)
MagMulLimb(a, k, c) ==
    IF a = <<>> THEN (IF c = 0 THEN <<>> ELSE <<c>>)
    ELSE LET p == Head(a) * k + c
         IN  <<p % LIMB>> \o MagMulLimb(Tail(a), k, p \div LIMB)

RECURSIVE MagMulR(_, _)
MagMulR(a, b) ==
    IF b = <<>> THEN <<>>
    ELSE MagAdd(MagMulLimb(a, Head(b), 0), <<0>> \o MagMulR(a, Tail(b)))

MagMul(a, b) == MagNorm(MagMulR(a, b))

\* <<quotient limbs, remainder>> of a magnitude by k, 0 < k <= LIMB
RECURSIVE MagDivRem(_, _)
MagDivRem(a, k) ==
    IF a = <<>> THEN <<<<>>, 0>>
    ELSE LET hi  == MagDivRem(Tail(a), k)
             cur == hi[2] * LIMB + Head(a)
         IN  <<<<cur \div k>> \o hi[1], cur % k>>

\* <<magnitude \div 2^n, whether a 1 bit was shifted out>>
RECURSIVE MagShr(_, _)
MagShr(m, n) ==
    IF n = 0 THEN <<MagNorm(m), FALSE>>
    ELSE LET k    == IF n >= 15 THEN 15 ELSE n
             d    == MagDivRem(m, 2^k)
             rest == MagShr(d[1], n - k)
         IN  <<rest[1], rest[2] \/ d[2] # 0>>

Int_Mk(neg, mag) == [neg |-> neg /\ mag # <<>>, mag |-> mag]

Int_Of(n) == Int_Mk(n < 0, MagOfNat(IF n < 0 THEN 0 - n ELSE n))

Int_Val(x) == IF x.neg THEN 0 - NatOfMag(x.mag) ELSE NatOfMag(x.mag)

Int_Neg(x) == Int_Mk(~x.neg, x.mag)

Int_Add(x, y) ==
    IF x.neg = y.neg THEN Int_Mk(x.neg, MagAdd(x.mag, y.mag))
    ELSE IF MagCmp(x.mag, y.mag) >= 0 THEN Int_Mk(x.neg, MagSub(x.mag, y.mag))
    ELSE Int_Mk(y.neg, MagSub(y.mag, x.mag))

Int_Sub(x, y) == Int_Add(x, Int_Neg(y))

Int_Mul(x, y) == Int_Mk(x.neg # y.neg, MagMul(x.mag, y.mag))

Int_Lt(x, y) ==
    IF x.neg # y.neg THEN x.neg
    ELSE IF x.neg THEN MagCmp(x.mag, y.mag) > 0
    ELSE MagCmp(x.mag, y.mag) < 0

RECURSIVE MagPow2(_)
MagPow2(n) == IF n < 15 THEN <<2^n>> ELSE <<0>> \o MagPow2(n - 15)

\* x << n
Int_Shl(x, n) == Int_Mul(x, Int_Mk(FALSE, MagPow2(n)))

\* x >> n rounding toward zero, as a division that truncates would
Int_ShrTrunc(x, n) == Int_Mk(x.neg, MagShr(x.mag, n)[1])

\* x >> n: Python's shift of a negative int rounds toward minus infinity
Int_Shr(x, n) ==
    LET s == MagShr(x.mag, n)
    IN  IF x.neg /\ s[2] THEN Int_Mk(TRUE, MagAdd(s[1], <<1>>))
        ELSE Int_Mk(x.neg, s[1])


(***************************************************************************)
(* Module constants, MS5803.py lines 8-11 and 78-95.                       *)
(***************************************************************************)
None == "None"

TEMP_UNITS == {"fahrenheit", "celcius"}

PRESSURE_UNITS == {"pascals", "bar"}

CMD_RESET == 30

CMD_PROM == 160

CMD_ADC_CONV == 64

CMD_ADC_READ == 0

PRESSURE == 0

TEMPERATURE == 16

\* OSR = namedtuple('OSR', ('address', 'sampling_time'))
OSR(address, sampling_time) == <<address, sampling_time>>

address(o) == o[1]

sampling_time(o) == o[2]

OSRs ==
    (256 :> OSR(0, 1)) @@ (512 :> OSR(2, 2)) @@ (1024 :> OSR(4, 3))
        @@ (2048 :> OSR(6, 5)) @@ (4096 :> OSR(8, 10))

(***************************************************************************)
(* Python values that a name of get_measurements may hold.                 *)
(***************************************************************************)
\* an optional int parameter: None when not given
Absent == [given |-> FALSE, v |-> 0]

Given(n) == [given |-> TRUE, v |-> n]

\* "if not x" for an int-or-None and for a str-or-None
OsrTruthy(x) == x.given /\ x.v # 0

UnitTruthy(u) == u # None /\ u # ""

PyInt(n) == [type |-> "int", v |-> <<n>>]

PyOSR(o) == [type |-> "OSR", v |-> o]

\* a | b on non-negative ints
RECURSIVE BitOr(_, _)
BitOr(a, b) ==
    IF a = 0 THEN b
    ELSE IF b = 0 THEN a
    ELSE (IF a % 2 = 1 \/ b % 2 = 1 THEN 1 ELSE 0) + 2 * BitOr(a \div 2, b \div 2)

(***************************************************************************)
(* convert_temperature, convert_pressure (lines 13-58).  The float result  *)
(* is kept as the exact fraction num/den; a unit that matches no branch    *)
(* leaves the local unbound and the return raises UnboundLocalError.       *)
(***************************************************************************)
Unbound == [err |-> TRUE, unit |-> None, num |-> 0, den |-> 1]

Value(unit, num, den) == [err |-> FALSE, unit |-> unit, num |-> num, den |-> den]

convert_temperature(temp, units) ==
    IF units = "fahrenheit" THEN Value(units, temp * 9 + 32 * (100 * 5), 100 * 5)
    ELSE IF units = "celcius" THEN Value(units, temp, 100)
    ELSE Unbound

convert_pressure(pressure, units) ==
    IF units = "pascals" THEN Value(units, pressure, 10)
    ELSE IF units = "bar" THEN Value(units, pressure, 10000)
    ELSE Unbound

(***************************************************************************)
(* Property setters and getters (lines 153-193).  A setter gives           *)
(* [raised, val]: whether the assert failed and the attribute's value      *)
(* afterwards (old when it raised).                                        *)
(***************************************************************************)
temp_units_setter(old, value) ==
    IF UnitTruthy(value)
    THEN IF value \in TEMP_UNITS
         THEN [raised |-> FALSE, val |-> value]
         ELSE [raised |-> TRUE, val |-> old]
    ELSE [raised |-> FALSE, val |-> None]

pressure_units_setter(old, value) ==
    IF UnitTruthy(value)
    THEN IF value \in PRESSURE_UNITS
         THEN [raised |-> FALSE, val |-> value]
         ELSE [raised |-> TRUE, val |-> old]
    ELSE [raised |-> FALSE, val |-> None]

osr_setter(old, value) ==
    IF value.given /\ value.v \in DOMAIN OSRs
    THEN [raised |-> FALSE, val |-> OSRs[value.v]]
    ELSE [raised |-> TRUE, val |-> old]

\* d: the four attributes [to, po, tu, pu] = _temp_osr, _pressure_osr,
\* _temp_units, _pressure_units
temp_units_getter(d) == d.tu

\* line 167: return self._temp_units
pressure_units_getter(d) == d.tu

temp_osr_getter(d) == d.to

pressure_osr_getter(d) == d.po

(***************************************************************************)
(* get_measurements lines 216-234: the four parameter blocks, in order.    *)
(* Gives [raised, d, loc]: whether a setter's assert failed, the           *)
(* attributes afterwards, and the locals temp_osr, pressure_osr,           *)
(* temp_units, pressure_units.  A supplied OSR stays the int it was.       *)
(***************************************************************************)
ParamBlocks(a, d) ==
    LET s1 == osr_setter(d.to, a.temp_osr)
        r1 == IF ~OsrTruthy(a.temp_osr)
              THEN [raised |-> FALSE, st |-> d.to, l |-> PyOSR(temp_osr_getter(d))]
              ELSE [raised |-> s1.raised, st |-> s1.val, l |-> PyInt(a.temp_osr.v)]
        s2 == osr_setter(d.po, a.pressure_osr)
        r2 == IF ~OsrTruthy(a.pressure_osr)
              THEN [raised |-> FALSE, st |-> d.po, l |-> PyOSR(pressure_osr_getter(d))]
              ELSE [raised |-> s2.raised, st |-> s2.val, l |-> PyInt(a.pressure_osr.v)]
        s3 == temp_units_setter(d.tu, a.temp_units)
        r3 == IF ~UnitTruthy(a.temp_units)
              THEN [raised |-> FALSE, st |-> d.tu, l |-> temp_units_getter(d)]
              ELSE [raised |-> s3.raised, st |-> s3.val, l |-> a.temp_units]
        d3 == [d EXCEPT !.tu = r3.st]
        s4 == pressure_units_setter(d.pu, a.pressure_units)
        r4 == IF ~UnitTruthy(a.pressure_units)
              THEN [raised |-> FALSE, st |-> d.pu, l |-> pressure_units_getter(d3)]
              ELSE [raised |-> s4.raised, st |-> s4.val, l |-> a.pressure_units]
        n  == IF r1.raised THEN 1 ELSE IF r2.raised THEN 2
              ELSE IF r3.raised THEN 3 ELSE IF r4.raised THEN 4 ELSE 5
    IN  [raised |-> n < 5,
         d   |-> [to |-> IF n >= 1 THEN r1.st ELSE d.to,
                  po |-> IF n >= 2 THEN r2.st ELSE d.po,
                  tu |-> IF n >= 3 THEN r3.st ELSE d.tu,
                  pu |-> IF n >= 4 THEN r4.st ELSE d.pu],
         loc |-> [temp_osr |-> r1.l, pressure_osr |-> r2.l,
                  temp_units |-> r3.l, pressure_units |-> r4.l]]

(***************************************************************************)
(* get_measurements lines 240-267: the compensation, on Python ints.       *)
(***************************************************************************)
I(n) == Int_Of(n)

Sq(x) == Int_Mul(x, x)

\* SecondOrder with the first comparison written temp <= 2000
SecondOrderLe(dT, temp) ==
    IF ~Int_Lt(I(2000), temp)
    THEN LET T2    == Int_Mul(I(3), Int_Shr(Int_Mul(dT, dT), 33))
             OFF2  == Int_Shr(Int_Mul(I(3), Sq(Int_Sub(temp, I(2000)))), 1)
             SENS2 == Int_Shr(Int_Mul(I(5), Sq(Int_Sub(temp, I(2000)))), 3)
         IN  IF Int_Lt(temp, I(-1500))
             THEN [T2    |-> T2,
                   OFF2  |-> Int_Add(OFF2, Int_Mul(I(7), Sq(Int_Add(temp, I(1500))))),
                   SENS2 |-> Int_Add(SENS2, Int_Shl(Sq(Int_Add(temp, I(1500))), 2))]
             ELSE [T2 |-> T2, OFF2 |-> OFF2, SENS2 |-> SENS2]
    ELSE [T2    |-> Int_Shr(Int_Mul(I(7), Int_Mul(dT, dT)), 37),
          OFF2  |-> Int_Shr(Sq(Int_Sub(temp, I(2000))), 4),
          SENS2 |-> I(0)]

\* lines 244-256: [T2, OFF2, SENS2] from dT and the first-order temp
SecondOrder(dT, temp) ==
    IF Int_Lt(temp, I(2000))
    THEN LET T2    == Int_Mul(I(3), Int_Shr(Int_Mul(dT, dT), 33))
             OFF2  == Int_Shr(Int_Mul(I(3), Sq(Int_Sub(temp, I(2000)))), 1)
             SENS2 == Int_Shr(Int_Mul(I(5), Sq(Int_Sub(temp, I(2000)))), 3)
         IN  IF Int_Lt(temp, I(-1500))
             THEN [T2    |-> T2,
                   OFF2  |-> Int_Add(OFF2, Int_Mul(I(7), Sq(Int_Add(temp, I(1500))))),
                   SENS2 |-> Int_Add(SENS2, Int_Shl(Sq(Int_Add(temp, I(1500))), 2))]
             ELSE [T2 |-> T2, OFF2 |-> OFF2, SENS2 |-> SENS2]
    ELSE [T2    |-> Int_Shr(Int_Mul(I(7), Int_Mul(dT, dT)), 37),
          OFF2  |-> Int_Shr(Sq(Int_Sub(temp, I(2000))), 4),
          SENS2 |-> I(0)]

\* self.C[i], a Python list indexed from 0
CAt(c, i) == c[i + 1]

\* the locals after line 267; temp1 is temp as line 242 left it
Compensation(temp_raw, pressure_raw, c) ==
    LET dT    == Int_Sub(I(temp_raw), Int_Shl(I(CAt(c, 5)), 8))
        temp1 == Int_Add(Int_Shr(Int_Mul(dT, I(CAt(c, 6))), 23), I(2000))
        so    == SecondOrder(dT, temp1)
        OFF   == Int_Add(Int_Shl(I(CAt(c, 2)), 16),
                         Int_Shr(Int_Mul(I(CAt(c, 4)), dT), 7))
        SENS  == Int_Add(Int_Shl(I(CAt(c, 1)), 15),
                         Int_Shr(Int_Mul(I(CAt(c, 3)), dT), 8))
        temp  == Int_Sub(temp1, so.T2)
        OFFc  == Int_Sub(OFF, so.OFF2)
        SENSc == Int_Sub(SENS, so.SENS2)
        pressure == Int_Shr(Int_Sub(Int_Shr(Int_Mul(SENSc, I(pressure_raw)), 21),
                                    OFFc), 15)
    IN  [done |-> TRUE, dT |-> dT, temp1 |-> temp1,
         T2 |-> so.T2, OFF2 |-> so.OFF2, SENS2 |-> so.SENS2,
         OFF |-> OFFc, SENS |-> SENSc, temp |-> temp, pressure |-> pressure]

\* lines 269-274: the returned pair
Returned(calc, temp_units, pressure_units) ==
    [temp     |-> IF UnitTruthy(temp_units)
                  THEN convert_temperature(Int_Val(calc.temp), temp_units)
                  ELSE Value(None, Int_Val(calc.temp), 1),
     pressure |-> IF UnitTruthy(pressure_units)
                  THEN convert_pressure(Int_Val(calc.pressure), pressure_units)
                  ELSE Value(None, Int_Val(calc.pressure), 1)]


(***************************************************************************)
(* The device and the inputs.                                              *)
(***************************************************************************)
\* calibration words as the PROM holds them; the first is the data sheet's
ExampleWords == <<0, 28986, 25092, 14595, 24979, 30347, 20787, 0>>

MaxWords == <<65535, 65535, 65535, 65535, 65535, 65535, 65535, 65535>>

UnitWords == <<0, 1, 1, 1, 1, 0, 1, 0>>

\* the two bytes of each PROM word, most significant first
PromOf(words) == [i \in 1..8 |-> <<words[i] \div 256, words[i] % 256>>]

\* the three bytes the ADC returns for a 24-bit conversion result
AdcBytes(v) == <<v \div 65536, (v \div 256) % 256, v % 256>>

\* conversion results the device may return in a session
SampleTable == <<8077636, 4298154, 7768831, 16777215>>

NumSamples == 2

AdcSamples == {SampleTable[i] : i \in 1..NumSamples}

SessionProms == {PromOf(ExampleWords)}

\* arguments a caller passes
CtorOsrArgs == {256, 100, 4096}

OsrArgs == {Absent, Given(0), Given(100), Given(512)}

TempUnitArgs == {None, "", "kelvin", "celcius", "fahrenheit"}

PressureUnitArgs == {None, "", "kelvin", "pascals", "bar"}

Args(to, po, tu, pu) ==
    [temp_osr |-> to, pressure_osr |-> po, temp_units |-> tu, pressure_units |-> pu]

NoArgs == Args(Absent, Absent, None, None)

(***************************************************************************)
(* State.                                                                  *)
(***************************************************************************)
VARIABLES
    pc,               \* where the session's single thread is
    prom,             \* the device's PROM
    C,                \* self.C
    _temp_osr,        \* self._temp_osr, an OSR tuple
    _pressure_osr,    \* self._pressure_osr
    _temp_units,      \* self._temp_units
    _pressure_units,  \* self._pressure_units
    args,             \* the arguments of the running (or last) call
    loc,              \* the locals of the running get_measurements
    calc,             \* the compensation locals of the running (or last) call
    bus,              \* the bus transfers and sleeps of the running (or last) call
    ret,              \* the running (or last) call and how it ended
    hist              \* what the session has done on the bus so far

vars == <<pc, prom, C, _temp_osr, _pressure_osr, _temp_units, _pressure_units,
          args, loc, calc, bus, ret, hist>>

attrs == <<_temp_osr, _pressure_osr, _temp_units, _pressure_units>>

\* the four attributes as ParamBlocks takes them
Self == [to |-> _temp_osr, po |-> _pressure_osr, tu |-> _temp_units,
         pu |-> _pressure_units]

NoAttr == "<no attribute>"

NoOsr == OSR(-1, -1)

NoLoc == [temp_osr |-> PyInt(0), pressure_osr |-> PyInt(0), temp_units |-> None,
          pressure_units |-> None, measurement |-> -1, temp_raw |-> -1,
          pressure_raw |-> -1]

NoCalc == [done |-> FALSE]

NoValue == [temp |-> Unbound, pressure |-> Unbound]

Ret(op, status, value) == [op |-> op, status |-> status, value |-> value]

\* one transfer on the bus, or a sleep (reg: the register, n: bytes or ms)
Ev(op, reg, n, ok, data) == [op |-> op, reg |-> reg, n |-> n, ok |-> ok, data |-> data]

Init ==
    /\ pc = "new"
    /\ prom \in SessionProms
    /\ C = <<>>
    /\ _temp_osr = NoOsr
    /\ _pressure_osr = NoOsr
    /\ _temp_units = NoAttr
    /\ _pressure_units = NoAttr
    /\ args = NoArgs
    /\ loc = NoLoc
    /\ calc = NoCalc
    /\ bus = <<>>
    /\ ret = Ret("none", "ok", NoValue)
    /\ hist = [promFailed |-> FALSE, conversions |-> FALSE]

(***************************************************************************)
(* __init__ (lines 97-124) and _begin (lines 133-150).                     *)
(***************************************************************************)
\* lines 118-120 and 147: __init__ is entered and _begin empties self.C
Construct ==
    /\ pc = "new"
    /\ \E to \in CtorOsrArgs, po \in CtorOsrArgs,
          tu \in TempUnitArgs, pu \in PressureUnitArgs :
          args' = Args(Given(to), Given(po), tu, pu)
    /\ pc' = "begin"
    /\ C' = <<>>
    /\ bus' = <<>>
    /\ ret' = Ret("__init__", "running", NoValue)
    /\ UNCHANGED <<prom, attrs, loc, calc, hist>>

\* line 150
Word(buf) == BitOr(buf[1] * 2^8, buf[2])

\* lines 149-150, one round of the loop, the read answered
BeginRead ==
    /\ pc = "begin"
    /\ LET i == Len(C)
           buf == prom[i + 1]
       IN  /\ bus' = Append(bus, Ev("read", CMD_PROM + (i * 2), 2, TRUE, buf))
           /\ C' = Append(C, Word(buf))
           /\ pc' = IF i + 1 = 8 THEN "init" ELSE "begin"
    /\ UNCHANGED <<prom, attrs, args, loc, calc, ret, hist>>

\* BeginReadFail with the exception caught: the word is taken as 0 and the
\* loop goes on
BeginReadFailLazy ==
    /\ pc = "begin"
    /\ bus' = Append(bus, Ev("read", CMD_PROM + (Len(C) * 2), 2, FALSE, <<>>))
    /\ C' = Append(C, 0)
    /\ pc' = IF Len(C) + 1 = 8 THEN "init" ELSE "begin"
    /\ hist' = [hist EXCEPT !.promFailed = TRUE]
    /\ UNCHANGED <<prom, attrs, args, loc, calc, ret>>

\* line 149 raising: the exception leaves __init__, no object is returned
BeginReadFail ==
    /\ pc = "begin"
    /\ bus' = Append(bus, Ev("read", CMD_PROM + (Len(C) * 2), 2, FALSE, <<>>))
    /\ pc' = "dead"
    /\ ret' = Ret("__init__", "OSError", NoValue)
    /\ hist' = [hist EXCEPT !.promFailed = TRUE]
    /\ UNCHANGED <<prom, C, attrs, args, loc, calc>>

\* lines 121-124: the four assignments, in order
InitAttrs ==
    /\ pc = "init"
    /\ LET s1 == osr_setter(_temp_osr, args.temp_osr)
           s2 == osr_setter(_pressure_osr, args.pressure_osr)
           s3 == temp_units_setter(_temp_units, args.temp_units)
           s4 == pressure_units_setter(_pressure_units, args.pressure_units)
           n  == IF s1.raised THEN 1 ELSE IF s2.raised THEN 2
                 ELSE IF s3.raised THEN 3 ELSE IF s4.raised THEN 4 ELSE 5
       IN  /\ _temp_osr' = IF n > 1 THEN s1.val ELSE _temp_osr
           /\ _pressure_osr' = IF n > 2 THEN s2.val ELSE _pressure_osr
           /\ _temp_units' = IF n > 3 THEN s3.val ELSE _temp_units
           /\ _pressure_units' = IF n > 4 THEN s4.val ELSE _pressure_units
           /\ pc' = IF n < 5 THEN "dead" ELSE "returned"
           /\ ret' = Ret("__init__", IF n < 5 THEN "AssertionError" ELSE "ok", NoValue)
    /\ UNCHANGED <<prom, C, args, loc, calc, bus, hist>>

(***************************************************************************)
(* The attribute assignments a caller makes on a session (lines 157-193).  *)
(***************************************************************************)
SetTempOsr ==
    /\ pc = "idle"
    /\ \E v \in OsrArgs \ {Absent} :
          LET s == osr_setter(_temp_osr, v)
          IN  /\ _temp_osr' = s.val
              /\ args' = Args(v, Absent, None, None)
              /\ ret' = Ret("temp_osr", IF s.raised THEN "AssertionError" ELSE "ok",
                            NoValue)
    /\ bus' = <<>>
    /\ calc' = NoCalc
    /\ pc' = "returned"
    /\ UNCHANGED <<prom, C, _pressure_osr, _temp_units, _pressure_units, loc, hist>>

SetPressureOsr ==
    /\ pc = "idle"
    /\ \E v \in OsrArgs \ {Absent} :
          LET s == osr_setter(_pressure_osr, v)
          IN  /\ _pressure_osr' = s.val
              /\ args' = Args(Absent, v, None, None)
              /\ ret' = Ret("pressure_osr", IF s.raised THEN "AssertionError" ELSE "ok",
                            NoValue)
    /\ bus' = <<>>
    /\ calc' = NoCalc
    /\ pc' = "returned"
    /\ UNCHANGED <<prom, C, _temp_osr, _temp_units, _pressure_units, loc, hist>>

SetTempUnits ==
    /\ pc = "idle"
    /\ \E u \in TempUnitArgs :
          LET s == temp_units_setter(_temp_units, u)
          IN  /\ _temp_units' = s.val
              /\ args' = Args(Absent, Absent, u, None)
              /\ ret' = Ret("temp_units", IF s.raised THEN "AssertionError" ELSE "ok",
                            NoValue)
    /\ bus' = <<>>
    /\ calc' = NoCalc
    /\ pc' = "returned"
    /\ UNCHANGED <<prom, C, _temp_osr, _pressure_osr, _pressure_units, loc, hist>>

SetPressureUnits ==
    /\ pc = "idle"
    /\ \E u \in PressureUnitArgs :
          LET s == pressure_units_setter(_pressure_units, u)
          IN  /\ _pressure_units' = s.val
              /\ args' = Args(Absent, Absent, None, u)
              /\ ret' = Ret("pressure_units", IF s.raised THEN "AssertionError" ELSE "ok",
                            NoValue)
    /\ bus' = <<>>
    /\ calc' = NoCalc
    /\ pc' = "returned"
    /\ UNCHANGED <<prom, C, _temp_osr, _pressure_osr, _temp_units, loc, hist>>

(***************************************************************************)
(* reset (lines 127-130).  The module imports only sleep_ms from utime,    *)
(* so line 130 raises NameError once the command is written.               *)
(***************************************************************************)
Reset ==
    /\ pc = "idle"
    /\ \E ok \in BOOLEAN :
          /\ bus' = <<Ev("write", CMD_RESET, 0, ok, <<>>)>>
          /\ ret' = Ret("reset", IF ok THEN "NameError" ELSE "OSError", NoValue)
    /\ args' = NoArgs
    /\ calc' = NoCalc
    /\ pc' = "returned"
    /\ UNCHANGED <<prom, C, attrs, loc, hist>>

(***************************************************************************)
(* get_measurements (lines 195-274) and _get_ADC_conversion (277-303).     *)
(***************************************************************************)
\* lines 216-234
GetMeasurements ==
    /\ pc = "idle"
    /\ \E to \in OsrArgs, po \in OsrArgs, tu \in TempUnitArgs, pu \in PressureUnitArgs :
          LET a == Args(to, po, tu, pu)
              r == ParamBlocks(a, Self)
          IN  /\ args' = a
              /\ _temp_osr' = r.d.to
              /\ _pressure_osr' = r.d.po
              /\ _temp_units' = r.d.tu
              /\ _pressure_units' = r.d.pu
              /\ IF r.raised
                 THEN /\ pc' = "returned"
                      /\ loc' = NoLoc
                      /\ ret' = Ret("get_measurements", "AssertionError", NoValue)
                 ELSE /\ pc' = "conv_start"
                      /\ loc' = [temp_osr |-> r.loc.temp_osr,
                                 pressure_osr |-> r.loc.pressure_osr,
                                 temp_units |-> r.loc.temp_units,
                                 pressure_units |-> r.loc.pressure_units,
                                 measurement |-> TEMPERATURE,
                                 temp_raw |-> -1, pressure_raw |-> -1]
                      /\ ret' = Ret("get_measurements", "running", NoValue)
    /\ bus' = <<>>
    /\ calc' = NoCalc
    /\ UNCHANGED <<prom, C, hist>>

\* the precision argument of the running _get_ADC_conversion (lines 237, 238)
Precision == IF loc.measurement = TEMPERATURE THEN loc.temp_osr ELSE loc.pressure_osr

\* ConvCommand with the two fields of the OSR tuple taken for each other
ConvCommandSwapped(measurement, precision) ==
    CMD_ADC_CONV + measurement + sampling_time(precision.v)

\* line 294: the command byte.  MicroPython's compiler replaces the bare name
\* CMD_ADC_CONV by the const() value of line 81.
ConvCommand(measurement, precision) == CMD_ADC_CONV + measurement + address(precision.v)

\* line 294 evaluating precision.address on an int
ConvAttributeError ==
    /\ pc = "conv_start"
    /\ Precision.type # "OSR"
    /\ pc' = "returned"
    /\ loc' = NoLoc
    /\ ret' = Ret("get_measurements", "AttributeError", NoValue)
    /\ UNCHANGED <<prom, C, attrs, args, calc, bus, hist>>

\* line 294, the write done
ConvStart ==
    /\ pc = "conv_start"
    /\ Precision.type = "OSR"
    /\ bus' = Append(bus, Ev("write", ConvCommand(loc.measurement, Precision), 0,
                             TRUE, <<>>))
    /\ hist' = [hist EXCEPT !.conversions = TRUE]
    /\ pc' = "conv_wait"
    /\ UNCHANGED <<prom, C, attrs, args, loc, calc, ret>>

\* line 294, the write raising
ConvStartFail ==
    /\ pc = "conv_start"
    /\ Precision.type = "OSR"
    /\ bus' = Append(bus, Ev("write", ConvCommand(loc.measurement, Precision), 0,
                             FALSE, <<>>))
    /\ hist' = [hist EXCEPT !.conversions = TRUE]
    /\ pc' = "returned"
    /\ loc' = NoLoc
    /\ ret' = Ret("get_measurements", "OSError", NoValue)
    /\ UNCHANGED <<prom, C, attrs, args, calc>>

\* line 297
ConvWait ==
    /\ pc = "conv_wait"
    /\ bus' = Append(bus, Ev("sleep_ms", 0, sampling_time(Precision.v), TRUE, <<>>))
    /\ pc' = "conv_read"
    /\ UNCHANGED <<prom, C, attrs, args, loc, calc, ret, hist>>

\* line 301
Result(buf) == (buf[1] * 2^16) + (buf[2] * 2^8) + buf[3]

\* lines 299-303, the read answered; the result goes to temp_raw (line 237)
\* or pressure_raw (line 238)
ConvRead ==
    /\ pc = "conv_read"
    /\ \E v \in AdcSamples :
          LET buf == AdcBytes(v)
          IN  /\ bus' = Append(bus, Ev("read", CMD_ADC_READ, 3, TRUE, buf))
              /\ IF loc.measurement = TEMPERATURE
                 THEN /\ loc' = [loc EXCEPT !.temp_raw = Result(buf),
                                            !.measurement = PRESSURE]
                      /\ pc' = "conv_start"
                 ELSE /\ loc' = [loc EXCEPT !.pressure_raw = Result(buf)]
                      /\ pc' = "compute"
    /\ hist' = [hist EXCEPT !.conversions = TRUE]
    /\ UNCHANGED <<prom, C, attrs, args, calc, ret>>

\* ConvReadFail with the exception caught: the result is taken as 0 and the
\* call goes on
ConvReadFailIgnored ==
    /\ pc = "conv_read"
    /\ bus' = Append(bus, Ev("read", CMD_ADC_READ, 3, FALSE, <<>>))
    /\ hist' = [hist EXCEPT !.conversions = TRUE]
    /\ IF loc.measurement = TEMPERATURE
       THEN /\ loc' = [loc EXCEPT !.temp_raw = 0, !.measurement = PRESSURE]
            /\ pc' = "conv_start"
       ELSE /\ loc' = [loc EXCEPT !.pressure_raw = 0]
            /\ pc' = "compute"
    /\ UNCHANGED <<prom, C, attrs, args, calc, ret>>

\* line 299 raising
ConvReadFail ==
    /\ pc = "conv_read"
    /\ bus' = Append(bus, Ev("read", CMD_ADC_READ, 3, FALSE, <<>>))
    /\ hist' = [hist EXCEPT !.conversions = TRUE]
    /\ pc' = "returned"
    /\ loc' = NoLoc
    /\ ret' = Ret("get_measurements", "OSError", NoValue)
    /\ UNCHANGED <<prom, C, attrs, args, calc>>

\* Compute with line 241's shift of C[5] stored back into self.C
ComputeInPlace ==
    /\ pc = "compute"
    /\ LET c == Compensation(loc.temp_raw, loc.pressure_raw, C)
           v == Returned(c, loc.temp_units, loc.pressure_units)
       IN  /\ calc' = c
           /\ ret' = IF v.temp.err \/ v.pressure.err
                     THEN Ret("get_measurements", "UnboundLocalError", NoValue)
                     ELSE Ret("get_measurements", "ok", v)
    /\ C' = [C EXCEPT ![6] = C[6] * 2^8]
    /\ pc' = "returned"
    /\ loc' = NoLoc
    /\ UNCHANGED <<prom, attrs, args, bus, hist>>

\* lines 240-274
Compute ==
    /\ pc = "compute"
    /\ LET c == Compensation(loc.temp_raw, loc.pressure_raw, C)
           v == Returned(c, loc.temp_units, loc.pressure_units)
       IN  /\ calc' = c
           /\ ret' = IF v.temp.err \/ v.pressure.err
                     THEN Ret("get_measurements", "UnboundLocalError", NoValue)
                     ELSE Ret("get_measurements", "ok", v)
    /\ pc' = "returned"
    /\ loc' = NoLoc
    /\ UNCHANGED <<prom, C, attrs, args, bus, hist>>

\* the caller has the call's outcome; the session waits for the next call
Return ==
    /\ pc = "returned"
    /\ pc' = "idle"
    /\ args' = NoArgs
    /\ calc' = NoCalc
    /\ bus' = <<>>
    /\ ret' = Ret("none", "ok", NoValue)
    /\ UNCHANGED <<prom, C, attrs, loc, hist>>

Next ==
    \/ Construct
    \/ BeginRead
    \/ BeginReadFail
    \/ InitAttrs
    \/ SetTempOsr
    \/ SetPressureOsr
    \/ SetTempUnits
    \/ SetPressureUnits
    \/ Reset
    \/ GetMeasurements
    \/ ConvAttributeError
    \/ ConvStart
    \/ ConvStartFail
    \/ ConvWait
    \/ ConvRead
    \/ ConvReadFail
    \/ Compute
    \/ Return

Spec == Init /\ [][Next]_vars


(***************************************************************************)
(* The compensation on its own: sessions built with the default            *)
(* arguments whose get_measurements() has read both conversion results     *)
(* and stands before line 240.                                             *)
(***************************************************************************)
CompCalibrations == {ExampleWords, MaxWords, UnitWords}

CompRawTemps ==
    {0, 6356404, 6356405, 7768831, 7768832, 8077636, 8388607, 16777215}

CompRawPressures == {0, 4298154, 16777215}

InitComp ==
    \E w \in CompCalibrations, t \in CompRawTemps, p \in CompRawPressures :
        /\ pc = "compute"
        /\ prom = PromOf(w)
        /\ C = w
        /\ _temp_osr = OSRs[256]
        /\ _pressure_osr = OSRs[256]
        /\ _temp_units = None
        /\ _pressure_units = None
        /\ args = NoArgs
        /\ loc = [temp_osr |-> PyOSR(OSRs[256]), pressure_osr |-> PyOSR(OSRs[256]),
                  temp_units |-> None, pressure_units |-> None,
                  measurement |-> PRESSURE, temp_raw |-> t, pressure_raw |-> p]
        /\ calc = NoCalc
        /\ bus = <<Ev("write", CMD_ADC_CONV + TEMPERATURE, 0, TRUE, <<>>),
                   Ev("sleep_ms", 0, 1, TRUE, <<>>),
                   Ev("read", CMD_ADC_READ, 3, TRUE, AdcBytes(t)),
                   Ev("write", CMD_ADC_CONV + PRESSURE, 0, TRUE, <<>>),
                   Ev("sleep_ms", 0, 1, TRUE, <<>>),
                   Ev("read", CMD_ADC_READ, 3, TRUE, AdcBytes(p))>>
        /\ ret = Ret("get_measurements", "running", NoValue)
        /\ hist = [promFailed |-> FALSE, conversions |-> TRUE]

SpecComp == InitComp /\ [][Compute]_vars


(***************************************************************************)
(* What the specification says, stated apart from the code above.          *)
(***************************************************************************)
\* section 6: OSR value, modifier byte, wait time in ms
SpecOsrTable ==
    {<<256, 0, 1>>, <<512, 2, 2>>, <<1024, 4, 3>>, <<2048, 6, 5>>, <<4096, 8, 10>>}

SpecOsrValues == {r[1] : r \in SpecOsrTable}

SpecRow(v) == CHOOSE r \in SpecOsrTable : r[1] = v

\* section 4.1 step 4: three bytes, big-endian
Be24(b) == b[1] * 65536 + b[2] * 256 + b[3]

\* floor(x / 2^n), by shifting the non-negative x + 2^(n+75)
FloorShift(x, n) ==
    LET biased == Int_Add(x, Int_Mk(FALSE, MagPow2(n + 75)))
    IN  Int_Sub(Int_Mk(FALSE, MagShr(biased.mag, n)[1]), Int_Mk(FALSE, MagPow2(75)))

\* section 4.2: second-order terms for dT and the first-order TEMP
Spec42Second(dT, TEMP) ==
    LET low  == Int_Lt(TEMP, I(2000))
        cold == Int_Lt(TEMP, I(-1500))
        d20  == Sq(Int_Sub(TEMP, I(2000)))
        d15  == Sq(Int_Add(TEMP, I(1500)))
    IN  [T2    |-> IF low THEN Int_Mul(I(3), FloorShift(Sq(dT), 33))
                   ELSE FloorShift(Int_Mul(I(7), Sq(dT)), 37),
         OFF2  |-> IF low
                   THEN Int_Add(FloorShift(Int_Mul(I(3), d20), 1),
                                IF cold THEN Int_Mul(I(7), d15) ELSE I(0))
                   ELSE FloorShift(d20, 4),
         SENS2 |-> IF low
                   THEN Int_Add(FloorShift(Int_Mul(I(5), d20), 3),
                                IF cold THEN Int_Mul(I(4), d15) ELSE I(0))
                   ELSE I(0)]

\* section 4.2: <<TEMP, PRESSURE>> for the raw values and C1..C6 = c[2..7]
Spec42(raw_temp, raw_pressure, c) ==
    LET dT    == Int_Sub(I(raw_temp), Int_Mul(I(c[6]), I(256)))
        TEMP  == Int_Add(I(2000), FloorShift(Int_Mul(dT, I(c[7])), 23))
        so    == Spec42Second(dT, TEMP)
        OFF   == Int_Sub(Int_Add(Int_Mul(I(c[3]), I(65536)),
                                 FloorShift(Int_Mul(I(c[5]), dT), 7)), so.OFF2)
        SENS  == Int_Sub(Int_Add(Int_Mul(I(c[2]), I(32768)),
                                 FloorShift(Int_Mul(I(c[4]), dT), 8)), so.SENS2)
    IN  <<Int_Sub(TEMP, so.T2),
          FloorShift(Int_Sub(FloorShift(Int_Mul(SENS, I(raw_pressure)), 21), OFF), 15)>>

Measuring == ret.op = "get_measurements"

BusFailed == \E i \in 1..Len(bus) : ~bus[i].ok

\* a value given for a parameter that its fixed set does not hold
OsrOutside(x) == x.given /\ x.v \notin SpecOsrValues

TempUnitOutside(u) == u # None /\ u \notin {"celcius", "fahrenheit"}

PressureUnitOutside(u) == u # None /\ u \notin {"pascals", "bar"}

(***************************************************************************)
(* C1.  A valid OSR supplied to get_measurements becomes the stored        *)
(* default, the channel's conversion is started with its modifier and      *)
(* waits its wait time, and the call returns a reading.  Stated for        *)
(* temp_osr, with no unit in play and no bus failure.                      *)
(***************************************************************************)
C1_SuppliedOsrIsUsed ==
    (/\ pc = "returned"
     /\ Measuring
     /\ args.temp_osr.given /\ args.temp_osr.v \in SpecOsrValues
     /\ args.pressure_osr = Absent
     /\ args.temp_units = None /\ args.pressure_units = None
     /\ _temp_units = None
     /\ ~BusFailed)
    => /\ ret.status = "ok"
       /\ _temp_osr = <<SpecRow(args.temp_osr.v)[2], SpecRow(args.temp_osr.v)[3]>>
       /\ Len(bus) = 6
       /\ bus[1].reg = 64 + 16 + SpecRow(args.temp_osr.v)[2]
       /\ bus[2].n >= SpecRow(args.temp_osr.v)[3]

(***************************************************************************)
(* C2.  The pressure unit is stored and read apart from the temperature    *)
(* unit: reading it gives the last pressure unit assigned, and a           *)
(* get_measurements that omits pressure_units converts the pressure with   *)
(* it (no conversion when none is set).                                    *)
(***************************************************************************)
C2_PressureUnitIndependent ==
    /\ pc \in {"idle", "returned"} => pressure_units_getter(Self) = _pressure_units
    /\ (pc = "returned" /\ Measuring /\ args.pressure_units = None
            /\ ret.status \notin {"AssertionError", "OSError", "AttributeError"})
       => /\ ret.status = "ok"
          /\ ret.value.pressure.unit = _pressure_units

(***************************************************************************)
(* C3.  A call that supplies an invalid OSR or unit raises a configuration *)
(* error and leaves the four stored defaults as they were, also when the   *)
(* same get_measurements call supplies valid values for other parameters.  *)
(***************************************************************************)
C3_InvalidLeavesDefaults ==
    [][(/\ pc = "idle"
        /\ \/ OsrTruthy(args'.temp_osr) /\ OsrOutside(args'.temp_osr)
           \/ OsrTruthy(args'.pressure_osr) /\ OsrOutside(args'.pressure_osr)
           \/ UnitTruthy(args'.temp_units) /\ TempUnitOutside(args'.temp_units)
           \/ UnitTruthy(args'.pressure_units)
                /\ PressureUnitOutside(args'.pressure_units))
       => /\ ret'.status = "AssertionError"
          /\ attrs' = attrs]_vars

(***************************************************************************)
(* C4.  Every value supplied outside its fixed set, 0 and the empty        *)
(* string included, is rejected with a configuration error where it is     *)
(* assigned, before any bus command; it is never taken as not given.       *)
(***************************************************************************)
C4_OutsideValueRejected ==
    (/\ ret.op \in {"get_measurements", "temp_osr", "pressure_osr", "temp_units",
                    "pressure_units"}
     /\ \/ OsrOutside(args.temp_osr)
        \/ OsrOutside(args.pressure_osr)
        \/ TempUnitOutside(args.temp_units)
        \/ PressureUnitOutside(args.pressure_units))
    => /\ ret.status = "AssertionError"
       /\ bus = <<>>


(***************************************************************************)
(* C5.  A bus failure in either conversion ends get_measurements with the  *)
(* error, nothing is retried and the compensation does not run; when the   *)
(* compensation runs, it is on the two 3-byte results this call read.      *)
(***************************************************************************)
C5_FailureAbortsReadsAreFresh ==
    /\ (Measuring /\ BusFailed)
       => /\ pc = "returned"
          /\ ret.status = "OSError"
          /\ \A i \in 1..Len(bus) : ~bus[i].ok => i = Len(bus)
          /\ ~calc.done
    /\ calc.done
       => /\ Len(bus) = 6
          /\ ~BusFailed
          /\ \A i \in {3, 6} : bus[i].op = "read" /\ bus[i].n = 3 /\ Len(bus[i].data) = 3
          /\ calc = Compensation(Be24(bus[3].data), Be24(bus[6].data), C)

C5_Witness ==
    /\ pc = "returned"
    /\ Measuring
    /\ Len(bus) = 6
    /\ bus[3].ok /\ Be24(bus[3].data) = 4298154
    /\ ~bus[6].ok
    /\ ret.status = "OSError"

(***************************************************************************)
(* C6.  __init__ reads the PROM words, two bytes each, most significant    *)
(* first, before the session can start a conversion; when a PROM read      *)
(* fails, __init__ fails and the session never starts a conversion nor     *)
(* reads the ADC.                                                          *)
(***************************************************************************)
C6_CalibrationBeforeConversion ==
    /\ (hist.conversions \/ pc \in {"conv_start", "conv_wait", "conv_read", "compute"})
       => /\ ~hist.promFailed
          /\ Len(C) = 8
          /\ \A i \in 1..8 : C[i] = prom[i][1] * 256 + prom[i][2]
    /\ hist.promFailed
       => /\ pc = "dead"
          /\ ret.op = "__init__" /\ ret.status = "OSError"
          /\ ~hist.conversions
    /\ ret.op = "__init__"
       => \A i \in 1..Len(bus) :
             bus[i].op = "read" /\ bus[i].reg = 160 + 2 * (i - 1) /\ bus[i].n = 2

C6_Witness ==
    /\ pc = "dead"
    /\ hist.promFailed
    /\ Len(C) = 5
    /\ Len(bus) = 6

(***************************************************************************)
(* C7.  The unconverted pair get_measurements returns is the pair of the   *)
(* section 4.2 formulas on unbounded integers with every right shift       *)
(* rounding toward minus infinity.                                         *)
(***************************************************************************)
C7_CompensationMatchesSpec ==
    (/\ Measuring
     /\ ret.status = "ok"
     /\ ret.value.temp.unit = None
     /\ ret.value.pressure.unit = None)
    => LET raw_temp     == Be24(bus[3].data)
           raw_pressure == Be24(bus[6].data)
           r            == Spec42(raw_temp, raw_pressure, C)
       IN  /\ ret.value.temp = Value(None, Int_Val(r[1]), 1)
           /\ ret.value.pressure = Value(None, Int_Val(r[2]), 1)
           \* section 8's input vector and what CPython gives for it
           /\ (C = ExampleWords /\ raw_temp = 8077636 /\ raw_pressure = 4298154)
              => /\ ret.value.temp.num = 2761
                 /\ ret.value.pressure.num = 8486

\* all-ones constants: negative products are shifted at every step
C7_Witness ==
    /\ ret.status = "ok"
    /\ C = MaxWords
    /\ Be24(bus[3].data) = 0
    /\ Be24(bus[6].data) = 16777215
    /\ ret.value.temp.num = -227370
    /\ ret.value.pressure.num = -14644083

(***************************************************************************)
(* C8.  In a call the bus sees, per conversion, the start command          *)
(* 0x40 + channel + the OSR's modifier, then a wait of at least the OSR's  *)
(* wait time, then the ADC read command 0x00 for 3 bytes, temperature      *)
(* before pressure, and nothing between a start and its read.              *)
(***************************************************************************)
C8_ConversionOrder ==
    Measuring
    => /\ Len(bus) <= 6
       /\ pc = "conv_start" => Len(bus) \in {0, 3}
       /\ pc = "conv_wait" => Len(bus) \in {1, 4}
       /\ pc = "conv_read" => Len(bus) \in {2, 5}
       /\ pc = "compute" => Len(bus) = 6
       /\ \A i \in 1..Len(bus) :
             LET chan == IF i <= 3 THEN 16 ELSE 0
                 o    == IF i <= 3 THEN _temp_osr ELSE _pressure_osr
             IN  /\ \E r \in SpecOsrTable : o = <<r[2], r[3]>>
                 /\ i % 3 = 1 => /\ bus[i].op = "write"
                                 /\ bus[i].reg = 64 + chan + o[1]
                                 /\ bus[i].ok \/ i = Len(bus)
                 /\ i % 3 = 2 => /\ bus[i].op = "sleep_ms"
                                 /\ bus[i].n >= o[2]
                 /\ i % 3 = 0 => /\ bus[i].op = "read"
                                 /\ bus[i].reg = 0
                                 /\ bus[i].n = 3
                                 /\ bus[i].ok \/ i = Len(bus)

C8_Witness ==
    /\ pc = "returned"
    /\ Measuring
    /\ Len(bus) = 6
    /\ ~BusFailed
    /\ bus[1].reg = 64 + 16 + 8
    /\ bus[2].n = 10
    /\ bus[4].reg = 64 + 0 + 2
    /\ bus[5].n = 2

(***************************************************************************)
(* C9.  The second-order terms are the low-temperature ones exactly when   *)
(* the first-order TEMP < 2000, and the extra terms are added exactly      *)
(* when TEMP < -1500.                                                      *)
(***************************************************************************)
C9_BranchThresholds ==
    calc.done
    => /\ [T2 |-> calc.T2, OFF2 |-> calc.OFF2, SENS2 |-> calc.SENS2]
             = Spec42Second(calc.dT, calc.temp1)
       /\ calc.temp1 = I(2000)
          => /\ calc.T2 = FloorShift(Int_Mul(I(7), Sq(calc.dT)), 37)
             /\ calc.OFF2 = I(0)
             /\ calc.SENS2 = I(0)
       /\ calc.temp1 = I(1999)
          => /\ calc.T2 = Int_Mul(I(3), FloorShift(Sq(calc.dT), 33))
             /\ calc.OFF2 = I(1)
             /\ calc.SENS2 = I(0)
       /\ calc.temp1 = I(-1500)
          => /\ calc.OFF2 = I(18375000)
             /\ calc.SENS2 = I(7656250)
       /\ calc.temp1 = I(-1501)
          => /\ calc.OFF2 = I(18385508)
             /\ calc.SENS2 = I(7660629)

\* TEMP = 2000 with a dT for which the two T2 formulas differ
C9_Witness ==
    /\ calc.done
    /\ calc.temp1 = I(2000)
    /\ calc.dT = I(8388607)
    /\ calc.T2 = I(3583)

(***************************************************************************)
(* C10.  Once loaded, the calibration constants are changed by no step of  *)
(* get_measurements and by no attribute assignment, and PROM words are     *)
(* read only by __init__ (or a reset).                                     *)
(***************************************************************************)
C10_CalibrationImmutable ==
    [][/\ (Len(C) = 8 /\ ret'.op # "reset") => C' = C
       /\ \A i \in 1..Len(bus') :
             bus'[i].reg >= 160 => ret'.op \in {"__init__", "reset"}]_vars

C10_Witness ==
    /\ pc = "returned"
    /\ Measuring
    /\ ret.status = "ok"
    /\ _temp_osr = <<2, 2>>
    /\ C = ExampleWords

====
